---- MODULE Spec2Model ----
(***************************************************************************)
(* Model of the admission-control layer of the backend:                    *)
(*   src/backend/app/core/rate_limiter.py                                  *)
(*   src/backend/app/schemas/response.py (error_response)                  *)
(*                                                                         *)
(* The wall clock is counted in ticks of 1/TicksPerSecond second.          *)
(* time.time() is the tick count; int(time.time()) is IntTime(now).        *)
(* The Redis path works on whole seconds, the local path on ticks.         *)
(***************************************************************************)
EXTENDS Integers, Sequences, FiniteSets, TLC

\* ------------------------------------------------------------------ bounds
TicksPerSecond == 2
MaxSeconds == 4
MaxRequests == 2
MaxWindow == 3
NTasks == 3
MaxLag == 1
MaxFaults == 1

\* The quotas of RateLimitConfig, scaled down to sizes a bounded run can
\* exhaust (requests) and outlive (windows, in seconds).
GlobalRequests == 3
IpRequests == 2
UserRequests == 1
SearchRequests == 1
LoginRequests == 1
RegisterRequests == 1
DefaultWindow == 2
LoginWindow == 3
RegisterWindow == 4

\* TokenBucket: capacities, refill rates (tokens per second) and amounts asked
MaxCapacity == 2
MaxRate == 2
MaxAmount == 2

\* security limiter, scaled down: the "api" limit (100 requests per 3600 s),
\* the age at which a record is cleaned up (3600 s), the duration of a block
\* (3600 s), the number of violations tolerated (10), and the number of
\* requests the callers make
SecRequests == 1
SecWindow == 2
CleanupAge == 2
BlockDuration == 2
SuspiciousLimit == 1
MaxSecCalls == 5

MaxTick == MaxSeconds * TicksPerSecond
Tasks == 1..NTasks

\* Python's None for an optional integer
None == -1

\* ------------------------------------------------------- small helpers
max(a, b) == IF a >= b THEN a ELSE b

\* int(time.time()): truncation of the clock reading to whole seconds
IntTime(t) == t \div TicksPerSecond

RateLimitRule(requests, window) == [requests |-> requests, window |-> window]

\* the rules a direct caller of is_allowed is drawn from
ProbeRules == {RateLimitRule(m, w) : m \in 1..MaxRequests, w \in 1..MaxWindow}

\* RateLimitConfig.DEFAULT_RULES and RateLimitConfig.ENDPOINT_RULES
DEFAULT_RULES ==
    [global |-> RateLimitRule(GlobalRequests, DefaultWindow),
     per_ip |-> RateLimitRule(IpRequests, DefaultWindow),
     per_user |-> RateLimitRule(UserRequests, DefaultWindow)]

ENDPOINT_RULES ==
    ("/api/v1/knowledge/search" :> RateLimitRule(SearchRequests, DefaultWindow)) @@
    ("/api/v1/auth/login" :> RateLimitRule(LoginRequests, LoginWindow)) @@
    ("/api/v1/auth/register" :> RateLimitRule(RegisterRequests, RegisterWindow))

\* the requests the middleware is given: client host, path, and the user id
\* an upstream middleware may have put on request.state (NoUser: none)
NoUser == ""
Hosts == {"1.2.3.4"}
Paths == {"/api/v1/auth/login", "/api/v1/knowledge/terms/search"}
Users == {NoUser, "u1"}
\* the requests in flight together
Reqs == {1, 2}

\* RateLimiter.get_rate_limit_key
get_rate_limit_key(rq, rule_type) ==
    IF rule_type = "global" THEN "rate_limit:global"
    ELSE IF rule_type = "per_ip" THEN "rate_limit:ip:" \o rq.host
    ELSE IF rule_type = "per_user"
         THEN "rate_limit:user:" \o (IF rq.user = NoUser THEN "anonymous" ELSE rq.user)
    ELSE IF rule_type = "per_endpoint" THEN "rate_limit:endpoint:" \o rq.path
    ELSE "rate_limit:custom:" \o rule_type

ProbeKey == get_rate_limit_key([host |-> "", path |-> "", user |-> NoUser], "probe")
Keys ==
    {ProbeKey, "rate_limit:global"}
    \cup {"rate_limit:ip:" \o h : h \in Hosts}
    \cup {"rate_limit:user:" \o u : u \in (Users \ {NoUser}) \cup {"anonymous"}}
    \cup {"rate_limit:endpoint:" \o p : p \in Paths \cap DOMAIN ENDPOINT_RULES}

\* check_rate_limits: the order of the scopes, which of them a request
\* passes through, and the rule each is evaluated with
ScopeOrder == <<"global", "per_ip", "per_endpoint", "per_user">>

\* check_rate_limits without the hasattr test: the user scope for every request
Applies_user_always(rq, scope) ==
    IF scope = "per_endpoint" THEN rq.path \in DOMAIN ENDPOINT_RULES ELSE TRUE

Applies(rq, scope) ==
    IF scope = "per_endpoint" THEN rq.path \in DOMAIN ENDPOINT_RULES
    ELSE IF scope = "per_user" THEN rq.user # NoUser
    ELSE TRUE
ScopeRule(rq, scope) ==
    IF scope = "per_endpoint" THEN ENDPOINT_RULES[rq.path] ELSE DEFAULT_RULES[scope]

\* the first scope at or after position i the request passes through (5: none)
RECURSIVE NextScope(_, _)
NextScope(rq, i) ==
    IF i > Len(ScopeOrder) THEN i
    ELSE IF Applies(rq, ScopeOrder[i]) THEN i
    ELSE NextScope(rq, i + 1)

\* get_rate_limit_status: the scopes it evaluates, in order
StatusOrder == <<"global", "per_ip">>

\* ------------------------------------------------ SlidingWindowCounter
SlidingWindowCounter(window_size, max_requests) ==
    [window_size |-> window_size, max_requests |-> max_requests, requests |-> <<>>]

\* while self.requests and self.requests[0] <= now - window_size: popleft()
RECURSIVE popleft_expired(_, _)
popleft_expired(q, cutoff) ==
    IF q # <<>> /\ Head(q) <= cutoff THEN popleft_expired(Tail(q), cutoff) ELSE q

\* SlidingWindowCounter.is_allowed with the limit test off by one (> for >=)
SWC_is_allowed_offbyone(c, t) ==
    LET pruned == popleft_expired(c.requests, t - c.window_size * TicksPerSecond)
    IN  IF Len(pruned) > c.max_requests
        THEN [counter |-> [c EXCEPT !.requests = pruned], result |-> FALSE]
        ELSE [counter |-> [c EXCEPT !.requests = Append(pruned, t)], result |-> TRUE]

\* SlidingWindowCounter.is_allowed at clock reading t (ticks):
\* the counter afterwards and the returned flag
SWC_is_allowed(c, t) ==
    LET pruned == popleft_expired(c.requests, t - c.window_size * TicksPerSecond)
    IN  IF Len(pruned) >= c.max_requests
        THEN [counter |-> [c EXCEPT !.requests = pruned], result |-> FALSE]
        ELSE [counter |-> [c EXCEPT !.requests = Append(pruned, t)], result |-> TRUE]

\* ------------------------------------------------------- TokenBucket
\* Token counts are kept in units of 1/TicksPerSecond token, so that
\* time_passed * refill_rate, with time_passed in ticks and refill_rate in
\* tokens per second, is a whole number of units.
min(a, b) == IF a <= b THEN a ELSE b

\* TokenBucket(capacity, refill_rate), constructed at clock reading t
TokenBucket(capacity, refill_rate, t) ==
    [capacity |-> capacity, tokens |-> capacity * TicksPerSecond,
     refill_rate |-> refill_rate, last_refill |-> t]

\* consume that leaves last_refill alone when it rejects
TokenBucket_consume_keepstamp(b, t, tokens) ==
    LET time_passed == t - b.last_refill
        refilled == min(b.capacity * TicksPerSecond, b.tokens + time_passed * b.refill_rate)
    IN  IF refilled >= tokens * TicksPerSecond
        THEN [bucket |-> [b EXCEPT !.tokens = refilled - tokens * TicksPerSecond,
                                   !.last_refill = t],
              result |-> TRUE]
        ELSE [bucket |-> [b EXCEPT !.tokens = refilled], result |-> FALSE]

\* consume that refills without the cap at capacity
TokenBucket_consume_uncapped(b, t, tokens) ==
    LET time_passed == t - b.last_refill
        refilled == b.tokens + time_passed * b.refill_rate
    IN  IF refilled >= tokens * TicksPerSecond
        THEN [bucket |-> [b EXCEPT !.tokens = refilled - tokens * TicksPerSecond,
                                   !.last_refill = t],
              result |-> TRUE]
        ELSE [bucket |-> [b EXCEPT !.tokens = refilled, !.last_refill = t],
              result |-> FALSE]

\* TokenBucket.consume(tokens) at clock reading t: the bucket afterwards and
\* the returned flag
TokenBucket_consume(b, t, tokens) ==
    LET time_passed == t - b.last_refill
        refilled == min(b.capacity * TicksPerSecond, b.tokens + time_passed * b.refill_rate)
    IN  IF refilled >= tokens * TicksPerSecond
        THEN [bucket |-> [b EXCEPT !.tokens = refilled - tokens * TicksPerSecond,
                                   !.last_refill = t],
              result |-> TRUE]
        ELSE [bucket |-> [b EXCEPT !.tokens = refilled, !.last_refill = t],
              result |-> FALSE]

\* ------------------------------------------------- Redis sorted set
\* A sorted set is a set of <<member, score>> pairs with unique members.
\* The member str(now) is represented by the integer it spells.
zremrangebyscore(z, lo, hi) == {e \in z : ~(lo <= e[2] /\ e[2] <= hi)}
zcard(z) == Cardinality(z)
zadd(z, member, score) == {e \in z : e[1] # member} \cup {<<member, score>>}
Scores(z) == {e[2] : e \in z}

\* ------------------------------------------------------------ state
VARIABLES
    now,            \* the wall clock, in ticks
    initialized,    \* RateLimiter.initialize has run
    redis_client,   \* self.redis_client is a client (TRUE) or None (FALSE)
    store,          \* the Redis server: key -> sorted set
    expire_at,      \* the Redis server: key -> tick at which the key expires, or None
    local_counters, \* self.local_counters: key -> SlidingWindowCounter
    probe_rule,     \* the rule the direct callers of is_allowed pass
    task,           \* direct callers of is_allowed: position and locals
    last,           \* the decision is_allowed returned most recently
    tally,          \* key -> clock reading in the trailing window -> decisions made with it
    nevals,         \* key -> decisions returned for the key, by backend
    req,            \* the requests in rate_limit_middleware: position and locals
    server,         \* the Redis server: "up", "down" (refuses connections) or
                    \* "silent" (accepts connections and never answers)
    bucket,         \* a TokenBucket object
    consumed,       \* the latest TokenBucket.consume call: argument and return value
    sec             \* app.core.security: the RateLimiter object and the latest response

vars == <<now, initialized, redis_client, store, expire_at, local_counters,
          probe_rule, task, last, tally, nevals, req, server, bucket, consumed, sec>>

\* ------------------------------------------- RateLimiter._local_rate_limit
\* _local_rate_limit that evaluates on a counter of its own, without what
\* the calls before it recorded
local_rate_limit_fresh(counters, key, rule, t) ==
    LET r == SWC_is_allowed(SlidingWindowCounter(rule.window, rule.requests), t)
    IN  [local_counters |-> IF key \in DOMAIN counters
                            THEN [counters EXCEPT ![key] = r.counter]
                            ELSE counters @@ (key :> r.counter),
         is_allowed |-> r.result,
         n |-> 0,
         info |-> [limit |-> rule.requests,
                   remaining |-> max(0, rule.requests - Len(r.counter.requests)),
                   reset_time |-> IntTime(t) + rule.window,
                   retry_after |-> IF r.result THEN None ELSE rule.window]]

\* _local_rate_limit reporting the quota left before the attempt is recorded
local_rate_limit_preappend(counters, key, rule, t) ==
    LET created == IF key \in DOMAIN counters
                   THEN counters
                   ELSE counters @@ (key :> SlidingWindowCounter(rule.window, rule.requests))
        r == SWC_is_allowed(created[key], t)
        n == IF r.result THEN Len(r.counter.requests) - 1 ELSE Len(r.counter.requests)
    IN  [local_counters |-> [created EXCEPT ![key] = r.counter],
         is_allowed |-> r.result,
         n |-> n,
         info |-> [limit |-> rule.requests,
                   remaining |-> max(0, rule.requests - n),
                   reset_time |-> IntTime(t) + rule.window,
                   retry_after |-> IF r.result THEN None ELSE rule.window]]

\* The outcome of _local_rate_limit(key, rule) on the dictionary `counters`
\* at clock reading t: the dictionary afterwards and (is_allowed, info).
local_rate_limit(counters, key, rule, t) ==
    LET created == IF key \in DOMAIN counters
                   THEN counters
                   ELSE counters @@ (key :> SlidingWindowCounter(rule.window, rule.requests))
        r == SWC_is_allowed(created[key], t)
    IN  [local_counters |-> [created EXCEPT ![key] = r.counter],
         is_allowed |-> r.result,
         n |-> IF r.result THEN Len(r.counter.requests) - 1 ELSE Len(r.counter.requests),
         info |-> [limit |-> rule.requests,
                   remaining |-> max(0, rule.requests - Len(r.counter.requests)),
                   reset_time |-> IntTime(t) + rule.window,
                   retry_after |-> IF r.result THEN None ELSE rule.window]]

\* ------------------------------------------- RateLimiter._redis_rate_limit
\* The MULTI/EXEC pipeline of _redis_rate_limit on sorted set z, with the
\* clock second tnow the caller read before building it:
\* zremrangebyscore, zcard, zadd; results[1] is the zcard reply.
redis_pipeline(z, rule, tnow) ==
    LET pruned == zremrangebyscore(z, 0, tnow - rule.window)
    IN  [set |-> zadd(pruned, tnow, tnow), results1 |-> zcard(pruned)]

\* the decision with the remaining quota computed without the request itself
redis_decision_noself(rule, tnow, current_requests) ==
    LET allowed == current_requests < rule.requests
    IN  [is_allowed |-> allowed,
         n |-> current_requests,
         info |-> [limit |-> rule.requests,
                   remaining |-> max(0, rule.requests - current_requests),
                   reset_time |-> tnow + rule.window,
                   retry_after |-> IF allowed THEN None ELSE rule.window]]

\* (is_allowed, info) computed from the zcard reply
redis_decision(rule, tnow, current_requests) ==
    LET allowed == current_requests < rule.requests
    IN  [is_allowed |-> allowed,
         n |-> current_requests,
         info |-> [limit |-> rule.requests,
                   remaining |-> max(0, rule.requests - current_requests - 1),
                   reset_time |-> tnow + rule.window,
                   retry_after |-> IF allowed THEN None ELSE rule.window]]

\* How a pipeline round trip can end: the reply arrives, or the call raises
\* (connection refused or reset, timeout) with the transaction not run.
Outcomes == {"ok", "error"}

\* The ways a round trip to a server in state s can end. The client is built
\* by redis.from_url(REDIS_URL, encoding, decode_responses) with no
\* socket_timeout and the awaits carry no timeout, so a call to a server
\* that never answers never ends.
ServerStates == {"up", "down", "silent"}
Replies(s) == IF s = "up" THEN Outcomes ELSE IF s = "down" THEN {"error"} ELSE {}

\* _redis_rate_limit whose except branch admits the request instead of
\* asking the local counter
redis_rate_limit_failopen(z, counters, key, rule, tnow, t, outcome) ==
    LET p == redis_pipeline(z, rule, tnow)
        d == redis_decision(rule, tnow, p.results1)
    IN  IF outcome = "ok"
        THEN [set |-> p.set, applied |-> TRUE, local_counters |-> counters,
              backend |-> "redis", is_allowed |-> d.is_allowed, n |-> d.n, info |-> d.info]
        ELSE [set |-> z, applied |-> FALSE, local_counters |-> counters,
              backend |-> "local", is_allowed |-> TRUE, n |-> 0,
              info |-> [limit |-> rule.requests, remaining |-> rule.requests - 1,
                        reset_time |-> IntTime(t) + rule.window, retry_after |-> None]]

\* The whole of _redis_rate_limit from `await pipe.execute()` on: the server
\* state, the local dictionary and the decision returned, for a round trip
\* that ends as `outcome` at tick t.
redis_rate_limit(z, counters, key, rule, tnow, t, outcome) ==
    LET p == redis_pipeline(z, rule, tnow)
        d == redis_decision(rule, tnow, p.results1)
        l == local_rate_limit(counters, key, rule, t)
    IN  IF outcome = "ok"
        THEN [set |-> p.set, applied |-> TRUE, local_counters |-> counters,
              backend |-> "redis", is_allowed |-> d.is_allowed, n |-> d.n, info |-> d.info]
        ELSE [set |-> z, applied |-> FALSE,
              local_counters |-> l.local_counters,
              backend |-> "local", is_allowed |-> l.is_allowed, n |-> l.n, info |-> l.info]

\* --------------------------------------------------- error responses
\* What error_response(...) returns: ErrorResponse(...).dict(), each field
\* with the kind of Python value it holds (status is a str-valued Enum,
\* timestamp the datetime utcnow() produced).
error_response ==
    [status |-> "str", message |-> "str", data |-> "null", timestamp |-> "datetime",
     request_id |-> "null", error_code |-> "str", details |-> "dict"]

\* the kinds of value json.dumps, which JSONResponse renders with, accepts
JsonKinds == {"str", "int", "float", "bool", "null", "dict", "list"}
json_dumps_raises(content) == \E f \in DOMAIN content : content[f] \notin JsonKinds

\* RateLimiter._create_rate_limit_response: the 429 response, or the
\* TypeError JSONResponse raises while rendering the content
create_rate_limit_response(info) ==
    IF json_dumps_raises(error_response)
    THEN [raised |-> TRUE, status_code |-> 500, info |-> info]
    ELSE [raised |-> FALSE, status_code |-> 429, info |-> info]

\* ------------------------------------------------------ bookkeeping
\* The decision a call returns, as kept in `last`. `at` is the clock reading
\* the decision was computed with, in ticks (a whole second on the Redis path).
Entry(seq, key, rule, r, fallback, at, by, scope, purpose) ==
    [seq |-> seq, key |-> key, rule |-> rule, backend |-> r.backend,
     fallback |-> fallback, is_allowed |-> r.is_allowed, n |-> r.n, info |-> r.info,
     at |-> at, by |-> by, scope |-> scope, purpose |-> purpose]

NoInfo == [limit |-> 0, remaining |-> 0, reset_time |-> 0, retry_after |-> None]
NoEntry ==
    [seq |-> 0, key |-> "", rule |-> RateLimitRule(0, 0), backend |-> "", fallback |-> FALSE,
     is_allowed |-> FALSE, n |-> 0, info |-> NoInfo,
     at |-> 0, by |-> 0, scope |-> "", purpose |-> ""]

\* what a request keeps of a decision it was given
Brief(e) ==
    [scope |-> e.scope, purpose |-> e.purpose, key |-> e.key, backend |-> e.backend,
     fallback |-> e.fallback, is_allowed |-> e.is_allowed, at |-> e.at, info |-> e.info]

\* The rule every use of a key passes
KeyRule(k) ==
    IF k = ProbeKey THEN probe_rule
    ELSE IF k = "rate_limit:global" THEN DEFAULT_RULES["global"]
    ELSE IF \E h \in Hosts : k = "rate_limit:ip:" \o h THEN DEFAULT_RULES["per_ip"]
    ELSE IF \E u \in Users \cup {"anonymous"} : k = "rate_limit:user:" \o u
         THEN DEFAULT_RULES["per_user"]
    ELSE ENDPOINT_RULES[CHOOSE p \in DOMAIN ENDPOINT_RULES : k = "rate_limit:endpoint:" \o p]

NoTally == [re |-> 0, ra |-> 0, le |-> 0, la |-> 0]

\* tally, with decision e counted at the clock reading it was computed with
\* (a reading that has already left the key's trailing window is not kept)
Count(tl, e) ==
    IF e.at <= now - e.rule.window * TicksPerSecond
    THEN tl
    ELSE [tl EXCEPT ![e.key][e.at] =
             IF e.backend = "redis"
             THEN [@ EXCEPT !.re = @ + 1, !.ra = @ + (IF e.is_allowed THEN 1 ELSE 0)]
             ELSE [@ EXCEPT !.le = @ + 1, !.la = @ + (IF e.is_allowed THEN 1 ELSE 0)]]

\* nevals, with decision e counted
Tick1(nv, e) ==
    IF e.backend = "redis"
    THEN [nv EXCEPT ![e.key].redis = @ + 1]
    ELSE [nv EXCEPT ![e.key].local = @ + 1]

RECURSIVE CountAll(_, _)
CountAll(tl, es) == IF es = <<>> THEN tl ELSE CountAll(Count(tl, Head(es)), Tail(es))
RECURSIVE TickAll(_, _)
TickAll(nv, es) == IF es = <<>> THEN nv ELSE TickAll(Tick1(nv, Head(es)), Tail(es))

\* the decisions es (oldest first, at least one) have been returned
Record(es) ==
    /\ last' = es[Len(es)]
    /\ tally' = CountAll(tally, es)
    /\ nevals' = TickAll(nevals, es)

Idle == [pc |-> "idle", key |-> ProbeKey, now |-> 0]
Done == [pc |-> "done", key |-> ProbeKey, now |-> 0]

\* a request the middleware has not been given yet
NewReq ==
    [pc |-> "new", host |-> "", path |-> "", user |-> NoUser, idx |-> 0, now |-> 0,
     evaluated |-> <<>>, forwarded |-> FALSE, raised |-> FALSE, status_code |-> 0,
     headers |-> NoInfo]

\* ------------------------------------------------------------ actions
InitCommon ==
    /\ now = 0
    /\ initialized = FALSE
    /\ redis_client = FALSE
    /\ store = [k \in Keys |-> {}]
    /\ expire_at = [k \in Keys |-> None]
    /\ local_counters = <<>>
    /\ task = [t \in Tasks |-> Idle]
    /\ last = NoEntry
    /\ tally = [k \in Keys |-> [t \in 0..MaxTick |-> NoTally]]
    /\ nevals = [k \in Keys |-> [redis |-> 0, local |-> 0]]
    /\ req = [r \in Reqs |-> NewReq]

\* the client addresses seen by the security limiter
SecIps == {"1.2.3.4", "5.6.7.8"}
\* a Python dict: a function whose domain is the set of keys present
EmptyDict == [k \in {} |-> 0]
Put(d, k, v) == [x \in DOMAIN d \cup {k} |-> IF x = k THEN v ELSE d[x]]
Del(d, k) == [x \in DOMAIN d \ {k} |-> d[x]]

\* the token bucket and the security limiter as they are when nothing uses them
NoBucket == [capacity |-> 0, tokens |-> 0, refill_rate |-> 0, last_refill |-> 0]
NoCall == [seq |-> 0, tokens |-> 0, result |-> FALSE]
NoSec ==
    [rate_limits |-> EmptyDict, blocked_ips |-> EmptyDict, suspicious_ips |-> EmptyDict,
     request_counts |-> EmptyDict,
     calls |-> 0, since_block |-> [ip \in SecIps |-> 0], status_code |-> 0, client |-> ""]
InitUnused ==
    /\ bucket = NoBucket
    /\ consumed = NoCall
    /\ sec = NoSec

\* direct callers of is_allowed, with a rule drawn from ProbeRules
Init ==
    /\ InitCommon
    /\ probe_rule \in ProbeRules
    /\ server = "up"
    /\ InitUnused

\* requests through rate_limit_middleware, all handled at one clock reading
InitMw ==
    /\ InitCommon
    /\ probe_rule = RateLimitRule(1, 1)
    /\ server = "up"
    /\ InitUnused

\* RateLimiter.initialize: the ping succeeds or raises
initialize(ping_ok) ==
    /\ ~initialized
    /\ (IF ping_ok THEN "ok" ELSE "error") \in Replies(server)
    /\ initialized' = TRUE
    /\ redis_client' = ping_ok
    /\ UNCHANGED <<now, store, expire_at, local_counters, probe_rule, task,
                   last, tally, nevals, req, server,
                   bucket, consumed, sec>>

\* The clock advances one tick; the server drops the keys whose TTL ran out.
\* A pipeline round trip in flight spans at most MaxLag second boundaries.
Tick ==
    /\ now < MaxTick
    /\ \A t \in Tasks : task[t].pc = "execute" => IntTime(now + 1) - task[t].now <= MaxLag
    /\ now' = now + 1
    /\ store' = [k \in Keys |->
                    IF expire_at[k] # None /\ expire_at[k] <= now + 1 THEN {} ELSE store[k]]
    /\ expire_at' = [k \in Keys |->
                    IF expire_at[k] # None /\ expire_at[k] <= now + 1 THEN None ELSE expire_at[k]]
    /\ tally' = [k \in Keys |-> [t \in 0..MaxTick |->
                    IF t <= now + 1 - KeyRule(k).window * TicksPerSecond
                    THEN NoTally ELSE tally[k][t]]]
    /\ UNCHANGED <<initialized, redis_client, local_counters, probe_rule, task,
                   last, nevals, req, server,
                   bucket, consumed, sec>>

\* A task calls is_allowed(key, rule). With a client it reads the clock,
\* queues the pipeline and suspends in `await pipe.execute()`; without one it
\* runs _local_rate_limit to the end (no suspension point).
is_allowed(t) ==
    /\ initialized
    /\ task[t].pc = "idle"
    /\ \A u \in Tasks : u < t => task[u].pc # "idle"
    /\ IF redis_client
       THEN /\ task' = [task EXCEPT ![t] = [pc |-> "execute", key |-> ProbeKey,
                                            now |-> IntTime(now)]]
            /\ UNCHANGED <<local_counters, last, tally, nevals>>
       ELSE LET l == local_rate_limit(local_counters, ProbeKey, probe_rule, now)
                r == [backend |-> "local", is_allowed |-> l.is_allowed, n |-> l.n,
                      info |-> l.info]
            IN  /\ local_counters' = l.local_counters
                /\ Record(<<Entry(last.seq + 1, ProbeKey, probe_rule, r, FALSE, now, 0,
                                  "probe", "probe")>>)
                /\ task' = [task EXCEPT ![t] = Done]
    /\ UNCHANGED <<now, initialized, redis_client, store, expire_at, probe_rule, req, server,
                   bucket, consumed, sec>>

\* a finished round trip whose pipeline carries no expire command
Settle_noexpire(k, rule, r) ==
    /\ store' = [store EXCEPT ![k] = r.set]
    /\ expire_at' = expire_at
    /\ local_counters' = r.local_counters

\* The effect of a finished round trip on the server and the limiter
Settle(k, rule, r) ==
    /\ store' = [store EXCEPT ![k] = r.set]
    /\ expire_at' = [expire_at EXCEPT ![k] =
                        IF r.applied THEN now + rule.window * TicksPerSecond ELSE @]
    /\ local_counters' = r.local_counters

\* the decision of a finished round trip
Decision(k, rule, r, tnow, outcome, by, scope, purpose) ==
    Entry(last.seq + 1, k, rule, r, outcome # "ok",
          IF outcome = "ok" THEN tnow * TicksPerSecond ELSE now, by, scope, purpose)

\* The round trip of a suspended task ends.
pipe_execute(t, outcome) ==
    /\ task[t].pc = "execute"
    /\ outcome \in Replies(server)
    /\ LET k == task[t].key
           r == redis_rate_limit(store[k], local_counters, k, probe_rule,
                                 task[t].now, now, outcome)
       IN  /\ Settle(k, probe_rule, r)
           /\ Record(<<Decision(k, probe_rule, r, task[t].now, outcome, 0, "probe", "probe")>>)
    /\ task' = [task EXCEPT ![t] = Done]
    /\ UNCHANGED <<now, initialized, redis_client, probe_rule, req, server,
                   bucket, consumed, sec>>

\* ------------------------------------------------ rate_limit_middleware
LocalResult(l) ==
    [backend |-> "local", is_allowed |-> l.is_allowed, n |-> l.n, info |-> l.info]

\* check_rate_limits that, when a later scope rejects, takes back what the
\* earlier scopes recorded
RECURSIVE check_rate_limits_local_rollback(_, _, _, _, _)
check_rate_limits_local_rollback(counters, r, rq, i, seq) ==
    LET j == NextScope(rq, i)
    IN  IF j > Len(ScopeOrder)
        THEN [local_counters |-> counters, entries |-> <<>>, allowed |-> TRUE]
        ELSE LET scope == ScopeOrder[j]
                 key == get_rate_limit_key(rq, scope)
                 rule == ScopeRule(rq, scope)
                 l == local_rate_limit(counters, key, rule, now)
                 e == Entry(seq, key, rule, LocalResult(l), FALSE, now, r, scope, "check")
             IN  IF ~l.is_allowed
                 THEN [local_counters |-> l.local_counters, entries |-> <<e>>,
                       allowed |-> FALSE]
                 ELSE LET rest == check_rate_limits_local_rollback(l.local_counters, r, rq,
                                                                   j + 1, seq + 1)
                      IN  [local_counters |-> IF rest.allowed THEN rest.local_counters
                                              ELSE counters,
                           entries |-> <<e>> \o rest.entries, allowed |-> rest.allowed]

\* check_rate_limits from scope position i on when there is no client: no
\* scope suspends, so the scopes run to the verdict in one step.
RECURSIVE check_rate_limits_local(_, _, _, _, _)
check_rate_limits_local(counters, r, rq, i, seq) ==
    LET j == NextScope(rq, i)
    IN  IF j > Len(ScopeOrder)
        THEN [local_counters |-> counters, entries |-> <<>>, allowed |-> TRUE]
        ELSE LET scope == ScopeOrder[j]
                 key == get_rate_limit_key(rq, scope)
                 rule == ScopeRule(rq, scope)
                 l == local_rate_limit(counters, key, rule, now)
                 e == Entry(seq, key, rule, LocalResult(l), FALSE, now, r, scope, "check")
             IN  IF ~l.is_allowed
                 THEN [local_counters |-> l.local_counters, entries |-> <<e>>,
                       allowed |-> FALSE]
                 ELSE LET rest == check_rate_limits_local(l.local_counters, r, rq,
                                                          j + 1, seq + 1)
                      IN  [local_counters |-> rest.local_counters,
                           entries |-> <<e>> \o rest.entries, allowed |-> rest.allowed]

\* get_rate_limit_status when there is no client: both scopes in one step
get_rate_limit_status_local(counters, r, rq, seq) ==
    LET gkey == get_rate_limit_key(rq, "global")
        g == local_rate_limit(counters, gkey, DEFAULT_RULES["global"], now)
        ikey == get_rate_limit_key(rq, "per_ip")
        i == local_rate_limit(g.local_counters, ikey, DEFAULT_RULES["per_ip"], now)
    IN  [local_counters |-> i.local_counters,
         entries |-> <<Entry(seq, gkey, DEFAULT_RULES["global"], LocalResult(g), FALSE,
                             now, r, "global", "status"),
                       Entry(seq + 1, ikey, DEFAULT_RULES["per_ip"], LocalResult(i), FALSE,
                             now, r, "per_ip", "status")>>,
         status |-> [global |-> g.info, ip |-> i.info]]

RECURSIVE Briefs(_)
Briefs(es) == IF es = <<>> THEN <<>> ELSE <<Brief(Head(es))>> \o Briefs(Tail(es))

\* rate_limit_middleware once check_rate_limits has its verdict: it awaits
\* call_next on None, returns the 429 response, or lets the exception that
\* building the response raised propagate (lines 290-295: no try around them).
Verdict(rq, allowed, info) ==
    IF allowed
    THEN [rq EXCEPT !.pc = "call_next", !.forwarded = TRUE]
    ELSE LET resp == create_rate_limit_response(info)
         IN  [rq EXCEPT !.pc = IF resp.raised THEN "raised" ELSE "rejected",
                        !.raised = resp.raised, !.status_code = resp.status_code,
                        !.headers = info]

\* rate_limit_middleware: the response of the handler with the headers taken
\* from status["global"]
Respond(rq, global_info) ==
    [rq EXCEPT !.pc = "done", !.status_code = 200, !.headers = global_info]

\* The middleware is given a request and enters check_rate_limits.
rate_limit_middleware(r, host, path, user) ==
    /\ initialized
    /\ req[r].pc = "new"
    /\ \A q \in Reqs : q < r => req[q].pc # "new"
    /\ LET rq == [NewReq EXCEPT !.host = host, !.path = path, !.user = user]
       IN  IF redis_client
           THEN /\ req' = [req EXCEPT ![r] = [rq EXCEPT !.pc = "check", !.idx = 1,
                                                        !.now = IntTime(now)]]
                /\ UNCHANGED <<local_counters, last, tally, nevals>>
           ELSE LET c == check_rate_limits_local(local_counters, r, rq, 1, last.seq + 1)
                IN  /\ local_counters' = c.local_counters
                    /\ Record(c.entries)
                    /\ req' = [req EXCEPT ![r] =
                                  Verdict([rq EXCEPT !.evaluated = Briefs(c.entries)],
                                          c.allowed, c.entries[Len(c.entries)].info)]
    /\ UNCHANGED <<now, initialized, redis_client, store, expire_at, probe_rule, task,
                   server,
                   bucket, consumed, sec>>

\* the round trips that raised and the cancellations the requests have met
RECURSIVE SumFaults(_)
SumFaults(S) ==
    IF S = {} THEN 0
    ELSE LET r == CHOOSE x \in S : TRUE
         IN  (IF req[r].pc = "cancelled" THEN 1 ELSE 0)
             + Cardinality({i \in 1..Len(req[r].evaluated) : req[r].evaluated[i].fallback})
             + SumFaults(S \ {r})
Faults == SumFaults(Reqs)

\* The round trip of the scope a request is suspended in ends; the request
\* goes on to its next scope or to the verdict.
check_execute(r, outcome) ==
    /\ req[r].pc = "check"
    /\ outcome \in Replies(server)
    /\ outcome # "ok" => Faults < MaxFaults
    /\ LET rq == req[r]
           scope == ScopeOrder[rq.idx]
           key == get_rate_limit_key(rq, scope)
           rule == ScopeRule(rq, scope)
           res == redis_rate_limit(store[key], local_counters, key, rule, rq.now, now, outcome)
           e == Decision(key, rule, res, rq.now, outcome, r, scope, "check")
           j == NextScope(rq, rq.idx + 1)
           rq1 == [rq EXCEPT !.evaluated = Append(@, Brief(e))]
       IN  /\ Settle(key, rule, res)
           /\ Record(<<e>>)
           /\ req' = [req EXCEPT ![r] =
                         IF res.is_allowed /\ j <= Len(ScopeOrder)
                         THEN [rq1 EXCEPT !.idx = j, !.now = IntTime(now)]
                         ELSE Verdict(rq1, res.is_allowed, res.info)]
    /\ UNCHANGED <<now, initialized, redis_client, probe_rule, task, server,
                   bucket, consumed, sec>>

\* The handler returns and the middleware enters get_rate_limit_status.
call_next_returns(r) ==
    /\ req[r].pc = "call_next"
    /\ IF redis_client
       THEN /\ req' = [req EXCEPT ![r] = [@ EXCEPT !.pc = "status", !.idx = 1,
                                                   !.now = IntTime(now)]]
            /\ UNCHANGED <<local_counters, last, tally, nevals>>
       ELSE LET s == get_rate_limit_status_local(local_counters, r, req[r], last.seq + 1)
            IN  /\ local_counters' = s.local_counters
                /\ Record(s.entries)
                /\ req' = [req EXCEPT ![r] =
                              Respond([@ EXCEPT !.evaluated = @ \o Briefs(s.entries)],
                                      s.status.global)]
    /\ UNCHANGED <<now, initialized, redis_client, store, expire_at, probe_rule, task,
                   server,
                   bucket, consumed, sec>>

\* The round trip of a get_rate_limit_status scope ends.
status_execute(r, outcome) ==
    /\ req[r].pc = "status"
    /\ outcome \in Replies(server)
    /\ outcome # "ok" => Faults < MaxFaults
    /\ LET rq == req[r]
           scope == StatusOrder[rq.idx]
           key == get_rate_limit_key(rq, scope)
           rule == DEFAULT_RULES[scope]
           res == redis_rate_limit(store[key], local_counters, key, rule, rq.now, now, outcome)
           e == Decision(key, rule, res, rq.now, outcome, r, scope, "status")
           rq1 == [rq EXCEPT !.evaluated = Append(@, Brief(e))]
       IN  /\ Settle(key, rule, res)
           /\ Record(<<e>>)
           /\ req' = [req EXCEPT ![r] =
                         IF rq.idx < Len(StatusOrder)
                         THEN [rq1 EXCEPT !.idx = rq.idx + 1, !.now = IntTime(now),
                                          !.headers = res.info]
                         ELSE Respond(rq1, rq.headers)]
    /\ UNCHANGED <<now, initialized, redis_client, probe_rule, task, server,
                   bucket, consumed, sec>>

\* The request's task is cancelled at the `await pipe.execute()` of
\* check_rate_limits it is suspended in (the client went away); the queued
\* pipeline is not run.
cancel(r) ==
    /\ req[r].pc = "check"
    /\ Faults < MaxFaults
    /\ req' = [req EXCEPT ![r].pc = "cancelled"]
    /\ UNCHANGED <<now, initialized, redis_client, store, expire_at, local_counters,
                   probe_rule, task, last, tally, nevals, server,
                   bucket, consumed, sec>>

Next ==
    \/ \E ok \in BOOLEAN : initialize(ok)
    \/ Tick
    \/ \E t \in Tasks : is_allowed(t)
    \/ \E t \in Tasks, o \in Outcomes : pipe_execute(t, o)

Spec == Init /\ [][Next]_vars

NextMw ==
    \/ \E ok \in BOOLEAN : initialize(ok)
    \/ \E r \in Reqs, h \in Hosts, p \in Paths, u \in Users : rate_limit_middleware(r, h, p, u)
    \/ \E r \in Reqs, o \in Outcomes : check_execute(r, o)
    \/ \E r \in Reqs : call_next_returns(r)
    \/ \E r \in Reqs, o \in Outcomes : status_execute(r, o)
    \/ \E r \in Reqs : cancel(r)

SpecMw == InitMw /\ [][NextMw]_vars

\* ------------------------------------------------- server availability
\* direct callers of is_allowed at one clock reading, against a server that
\* starts in any state
InitDeg ==
    /\ InitCommon
    /\ probe_rule \in ProbeRules
    /\ server \in ServerStates
    /\ InitUnused

\* The server goes down, stops answering, or comes back.
server_changes(s) ==
    /\ s # server
    /\ server' = s
    /\ UNCHANGED <<now, initialized, redis_client, store, expire_at, local_counters,
                   probe_rule, task, last, tally, nevals, req, bucket, consumed, sec>>

NextDeg ==
    \/ \E ok \in BOOLEAN : initialize(ok)
    \/ \E t \in Tasks : is_allowed(t)
    \/ \E t \in Tasks, o \in Outcomes : pipe_execute(t, o)
    \/ \E s \in ServerStates : server_changes(s)

\* the steps of the limiter's coroutines
Progress ==
    \/ \E ok \in BOOLEAN : initialize(ok)
    \/ \E t \in Tasks : is_allowed(t)
    \/ \E t \in Tasks, o \in Outcomes : pipe_execute(t, o)

\* The event loop keeps running the coroutines that can take a step (each
\* takes finitely many); nothing obliges the server to change state.
SpecDeg == InitDeg /\ [][NextDeg]_vars /\ WF_vars(Progress)

\* ----------------------------------------------------- token bucket
\* a bucket constructed at clock reading 0 and consumed from as time passes
InitTB ==
    /\ InitCommon
    /\ probe_rule = RateLimitRule(1, 1)
    /\ server = "up"
    /\ bucket \in {TokenBucket(c, r, 0) : c \in 1..MaxCapacity, r \in 0..MaxRate}
    /\ consumed = NoCall
    /\ sec = NoSec

\* A caller runs bucket.consume(tokens).
consume(tokens) ==
    /\ LET c == TokenBucket_consume(bucket, now, tokens)
       IN  /\ bucket' = c.bucket
           /\ consumed' = [seq |-> IF consumed.seq = 1 THEN 2 ELSE 1,
                           tokens |-> tokens, result |-> c.result]
    /\ UNCHANGED <<now, initialized, redis_client, store, expire_at, local_counters,
                   probe_rule, task, last, tally, nevals, req, server, sec>>

NextTB ==
    \/ Tick
    \/ \E n \in 0..MaxAmount : consume(n)

SpecTB == InitTB /\ [][NextTB]_vars

\* ------------------------------------- app.core.security.RateLimiter
\* Times are clock readings in ticks; one request reads the clock once. Only
\* the "api" limit type is modelled: rate_limits is rate_limits["api"].
RateLimitInfo(requests, window_start) ==
    [requests |-> requests, window_start |-> window_start, blocked |-> FALSE]

\* _cleanup_expired_limits(current_time)
cleanup_expired_limits(limits, current_time) ==
    [k \in {x \in DOMAIN limits :
               ~(current_time - limits[x].window_start > CleanupAge * TicksPerSecond)}
       |-> limits[k]]

\* is_rate_limited(key) on limiter s: the limiter afterwards and the flag
is_rate_limited(s, key, current_time) ==
    LET cleaned == cleanup_expired_limits(s.rate_limits, current_time)
        created == IF key \in DOMAIN cleaned
                   THEN cleaned
                   ELSE Put(cleaned, key, RateLimitInfo(0, current_time))
        rate_info == created[key]
        windowed == IF current_time - rate_info.window_start > SecWindow * TicksPerSecond
                    THEN [rate_info EXCEPT !.requests = 0, !.window_start = current_time]
                    ELSE rate_info
        counted == [windowed EXCEPT !.requests = @ + 1]
        limited == counted.requests > SecRequests
    IN  [sec |-> [s EXCEPT !.rate_limits =
                     Put(created, key, IF limited THEN [counted EXCEPT !.blocked = TRUE]
                                       ELSE counted)],
         result |-> limited]

\* block_ip(ip, duration)
block_ip(s, ip, duration, t) ==
    [s EXCEPT !.blocked_ips = Put(@, ip, t + duration * TicksPerSecond)]

\* is_ip_blocked(ip): an expired block is deleted
is_ip_blocked(s, ip, t) ==
    IF ip \in DOMAIN s.blocked_ips
    THEN IF t < s.blocked_ips[ip]
         THEN [sec |-> s, result |-> TRUE]
         ELSE [sec |-> [s EXCEPT !.blocked_ips = Del(@, ip)], result |-> FALSE]
    ELSE [sec |-> s, result |-> FALSE]

\* suspicious_ips is a defaultdict(int)
Suspicious(s, ip) == IF ip \in DOMAIN s.suspicious_ips THEN s.suspicious_ips[ip] ELSE 0

\* record_suspicious_activity(ip)
record_suspicious_activity(s, ip, t) ==
    LET counted == [s EXCEPT !.suspicious_ips = Put(@, ip, Suspicious(s, ip) + 1)]
    IN  IF counted.suspicious_ips[ip] > SuspiciousLimit
        THEN block_ip(counted, ip, BlockDuration, t)
        ELSE counted

\* request_counts is a defaultdict of deques (maxlen 100, more than MaxSecCalls)
Appended(s, ip, t) ==
    [s EXCEPT !.request_counts =
        Put(@, ip, Append(IF ip \in DOMAIN @ THEN @[ip] ELSE <<>>, t))]

\* SecurityMiddleware.process_request for a request of client ip: 403 for a
\* blocked address, 429 for a rate-limited one, else the request goes on.
\* since_block counts the violations of ip since block_ip was last called
\* for it (or since the start).
process_request(ip) ==
    /\ sec.calls < MaxSecCalls
    /\ LET b == is_ip_blocked(sec, ip, now)
           r == is_rate_limited(b.sec, ip, now)
           v == record_suspicious_activity(r.sec, ip, now)
           out == IF b.result
                  THEN [b.sec EXCEPT !.status_code = 403]
                  ELSE IF r.result
                       THEN [v EXCEPT !.status_code = 429,
                                      !.since_block[ip] =
                                          IF v.blocked_ips # r.sec.blocked_ips
                                          THEN 0 ELSE @ + 1]
                       ELSE [Appended(r.sec, ip, now) EXCEPT !.status_code = 200]
       IN  sec' = [out EXCEPT !.calls = @ + 1, !.client = ip]
    /\ UNCHANGED <<now, initialized, redis_client, store, expire_at, local_counters,
                   probe_rule, task, last, tally, nevals, req, server, bucket, consumed>>

InitSec ==
    /\ InitCommon
    /\ probe_rule = RateLimitRule(1, 1)
    /\ server = "up"
    /\ bucket = NoBucket
    /\ consumed = NoCall
    /\ sec = NoSec

NextSec ==
    \/ Tick
    \/ \E ip \in SecIps : process_request(ip)

SpecSec == InitSec /\ [][NextSec]_vars

\* ================================================================ claims
RECURSIVE SumLocalAdmits(_, _, _)
SumLocalAdmits(k, lo, hi) ==
    IF hi <= lo \/ hi < 0 THEN 0
    ELSE (IF hi <= MaxTick THEN tally[k][hi].la ELSE 0) + SumLocalAdmits(k, lo, hi - 1)

Decided == last.seq > 0
Returned == last'.seq # last.seq
Window(rule) == rule.window * TicksPerSecond

\* the entries of a deque that are younger than the window at reading t
InWindow(q, rule, t) == {i \in 1..Len(q) : q[i] > t - Window(rule)}

\* C1: in distributed mode the decisions computed with one clock second on
\* one key admit at most max_requests requests, and when the key's N > M
\* decisions were all computed with that second, exactly M are admitted.
C1_NoOverAdmission ==
    \A k \in Keys : \A t \in 0..MaxTick :
        LET M == KeyRule(k).requests
        IN  /\ tally[k][t].ra <= M
            /\ (nevals[k].local = 0 /\ tally[k][t].re = nevals[k].redis /\ tally[k][t].re > M)
                  => tally[k][t].ra = M

\* C2: on a key whose decisions were all computed at one instant by one
\* backend, the j-th decision (j <= M) admits and reports remaining M - j,
\* and the (M+1)-th, made at that instant or later but less than the window
\* after it, rejects.
C2_FirstMAdmittedInOrder ==
    \A k \in Keys : \A t0 \in 0..MaxTick :
        LET M == KeyRule(k).requests
            j == tally[k][t0].re + tally[k][t0].le
            total == nevals[k].redis + nevals[k].local
            one_backend == nevals[k].redis = 0 \/ nevals[k].local = 0
        IN  (Decided /\ last.key = k /\ one_backend) =>
              /\ (last.at = t0 /\ j = total /\ j <= M)
                    => (last.is_allowed /\ last.info.remaining = M - j)
              /\ (last.at = t0 /\ j = total /\ j = M + 1) => ~last.is_allowed
              /\ (j = M /\ total = M + 1 /\ last.at > t0 /\ last.at - t0 < Window(KeyRule(k)))
                    => ~last.is_allowed

\* C4: a rejecting decision of the distributed counter leaves the key's
\* sorted set equal to the pruned set that was counted.
C4_RejectedNotRecorded ==
    [][(Returned /\ last'.backend = "redis" /\ ~last'.is_allowed)
         => store'[last'.key] =
              zremrangebyscore(store[last'.key], 0, IntTime(last'.at) - last'.rule.window)]_vars

\* the oldest timestamp recorded for key k in the backend b, in ticks
HasRecorded(k, b) ==
    IF b = "redis" THEN store[k] # {}
    ELSE k \in DOMAIN local_counters /\ local_counters[k].requests # <<>>
Oldest(k, b) ==
    IF b = "redis"
    THEN TicksPerSecond * (CHOOSE x \in Scores(store[k]) : \A y \in Scores(store[k]) : x <= y)
    ELSE Head(local_counters[k].requests)

\* C5: a key whose latest decision was a rejection admits the next request
\* made with a clock reading more than the window past the oldest timestamp
\* recorded for the key.
C5_NoPermanentLockout ==
    [][(Returned /\ Decided /\ ~last.is_allowed /\ last.key = last'.key
          /\ last.backend = last'.backend /\ HasRecorded(last'.key, last'.backend)
          /\ last'.at > Oldest(last'.key, last'.backend) + Window(last'.rule))
         => last'.is_allowed]_vars

\* C6: while no decision has come from Redis, every key admits at most
\* max_requests requests in the trailing window, and a request is admitted
\* exactly when fewer than max_requests admitted timestamps lie in the
\* window it arrives in.
C6_FallbackEnforcesRule ==
    \A k \in Keys :
        LET rule == KeyRule(k)
            inwin == SumLocalAdmits(k, now - Window(rule), now)
        IN  nevals[k].redis = 0 =>
              /\ inwin <= rule.requests
              /\ (Decided /\ last.key = k /\ last.at = now) =>
                    (last.is_allowed <=>
                        inwin - (IF last.is_allowed THEN 1 ELSE 0) < rule.requests)

C6_Witness ==
    /\ Decided /\ redis_client /\ last.fallback /\ ~last.is_allowed
    /\ nevals[last.key].redis = 0 /\ nevals[last.key].local > last.rule.requests

\* C7: when the pipeline call raises, the caller receives the decision of
\* the local sliding-window counter of the same key and rule, which records
\* the request when it admits it; the Redis set is left alone.
C7_FallbackDecisionIsLocal ==
    [][(Returned /\ last'.fallback) =>
         LET k == last'.key
             rule == last'.rule
             before == IF k \in DOMAIN local_counters
                       THEN local_counters[k].requests ELSE <<>>
             n == Cardinality(InWindow(before, rule, now))
         IN  /\ \E t \in Tasks : task[t].pc = "execute" /\ task'[t].pc = "done"
                                 /\ task[t].key = k /\ rule = KeyRule(k)
             /\ last'.backend = "local"
             /\ last'.is_allowed <=> n < rule.requests
             /\ last'.info.limit = rule.requests
             /\ k \in DOMAIN local_counters'
             /\ Len(local_counters'[k].requests) = n + (IF last'.is_allowed THEN 1 ELSE 0)
             /\ last'.is_allowed =>
                    local_counters'[k].requests[Len(local_counters'[k].requests)] = now
             /\ store' = store]_vars

C7_Witness ==
    /\ Decided /\ last.fallback /\ ~last.is_allowed /\ nevals[last.key].redis > 0

\* -------------------------------------------------- middleware claims
\* the decisions check_rate_limits gave request r, oldest first
Checks(r) == SelectSeq(req[r].evaluated, LAMBDA e : e.purpose = "check")

\* C3: a get_rate_limit_status evaluation leaves every counter, in the
\* Redis store and in the local dictionary, as it was.
C3_StatusIsReadOnly ==
    [][(Returned /\ last'.purpose = "status") => UNCHANGED <<store, local_counters>>]_vars

\* C8: a request whose admission check raised an exception is still
\* forwarded to the handler.
C8_FailOpen == \A r \in Reqs : req[r].raised => req[r].forwarded

\* the scopes the claim lets a request pass through, in the claimed order
ClaimedScopes(rq) ==
    SelectSeq(<<"global", "per_ip", "per_endpoint", "per_user">>,
              LAMBDA s : /\ s = "per_endpoint" => rq.path \in DOMAIN ENDPOINT_RULES
                         /\ s = "per_user" => rq.user # NoUser)

C9_Order ==
    \A r \in Reqs :
        LET cs == Checks(r)
            want == ClaimedScopes(req[r])
        IN  /\ Len(cs) <= Len(want)
            /\ \A i \in 1..Len(cs) :
                  /\ cs[i].scope = want[i]
                  /\ cs[i].key = get_rate_limit_key(req[r], want[i])
                  /\ i < Len(cs) => cs[i].is_allowed
            /\ req[r].pc \in {"call_next", "status", "done"}
                  => Len(cs) = Len(want) /\ \A i \in 1..Len(cs) : cs[i].is_allowed
            /\ req[r].pc \in {"raised", "rejected"}
                  => Len(cs) > 0 /\ ~cs[Len(cs)].is_allowed

\* the keys of the decisions request r was given in this step
NewKeys(r) ==
    {req'[r].evaluated[i].key : i \in (Len(req[r].evaluated) + 1)..Len(req'[r].evaluated)}
Touched(k) ==
    \/ store'[k] # store[k]
    \/ nevals'[k] # nevals[k]
    \/ (k \in DOMAIN local_counters') # (k \in DOMAIN local_counters)
    \/ k \in DOMAIN local_counters /\ local_counters'[k] # local_counters[k]
C9_Frame ==
    \A r \in Reqs : req'[r] # req[r] => \A k \in Keys : Touched(k) => k \in NewKeys(r)

\* C9: a request is evaluated scope by scope in the order Global, PerClient,
\* PerEndpoint, PerUser, the endpoint scope only for a path with a rule and
\* the user scope only with a user id; every decision before its last one
\* admits; and a step of the request reads and changes no counter but those
\* of the scopes it is given a decision for, so none after a rejection.
C9_ScopeOrder == []C9_Order /\ [][C9_Frame]_vars

C9_Witness ==
    \E r \in Reqs :
        /\ req[r].pc = "raised" /\ req[r].user # NoUser
        /\ Len(Checks(r)) = 3 /\ Checks(r)[3].scope = "per_endpoint"
        /\ nevals[get_rate_limit_key(req[r], "per_user")] = [redis |-> 0, local |-> 0]

\* how often the clock reading t is recorded in the local counter of key k
Recorded(counters, k, t) ==
    IF k \in DOMAIN counters
    THEN Cardinality({i \in 1..Len(counters[k].requests) : counters[k].requests[i] = t})
    ELSE 0

\* C10: the step in which a request is rejected by a scope, or cancelled,
\* takes back none of the attempts its earlier scopes recorded: each is
\* still in its counter after the step.
C10_NoRollback ==
    [][\A r \in Reqs :
         (req[r].pc \notin {"raised", "rejected", "cancelled"}
            /\ req'[r].pc \in {"raised", "rejected", "cancelled"})
         => \A i \in 1..Len(Checks(r)') :
               LET e == Checks(r)'[i]
               IN  (e.is_allowed /\ e.at > now - Window(KeyRule(e.key))) =>
                     IF e.backend = "redis"
                     THEN IntTime(e.at) \in Scores(store'[e.key])
                     ELSE Recorded(local_counters', e.key, e.at) = tally'[e.key][e.at].la]_vars

C10_Witness ==
    \E r \in Reqs :
        /\ req[r].pc = "raised" /\ Len(Checks(r)) = 2 /\ ~redis_client
        /\ Checks(r)[1].info.remaining < GlobalRequests - 1

\* ------------------------------------------- middleware responses
Finished == {"done", "raised", "rejected"}
Min(S) == CHOOSE x \in S : \A y \in S : x <= y

\* C11: the X-RateLimit-Remaining of a forwarded request's response is the
\* smallest remaining among the decisions check_rate_limits gave the request.
C11_MostRestrictive ==
    \A r \in Reqs :
        req[r].pc = "done" =>
            req[r].headers.remaining =
                Min({Checks(r)[i].info.remaining : i \in 1..Len(Checks(r))})

\* a request on a path without an endpoint rule and without a user id
Plain(r) ==
    /\ req[r].pc # "new"
    /\ req[r].path \notin DOMAIN ENDPOINT_RULES
    /\ req[r].user = NoUser

\* the requests of r's client up to and including r
SameClient(r) == {q \in Reqs : q <= r /\ req[q].pc # "new" /\ req[q].host = req[r].host}

\* C12: of the plain requests of one client within one window, each of the
\* first IpRequests that the global scope admits is forwarded, and the next
\* is answered with 429 and not forwarded.
C12_PerIpQuota ==
    \A r \in Reqs :
        LET n == Cardinality(SameClient(r))
        IN  (/\ req[r].pc \in Finished
             /\ \A q \in SameClient(r) : Plain(q) /\ req[q].pc \in Finished
             /\ Len(Checks(r)) >= 2) =>
                /\ n <= IpRequests => req[r].forwarded
                /\ n = IpRequests + 1 => (req[r].status_code = 429 /\ ~req[r].forwarded)

\* C13: when one client has sent more requests to the term-search path than
\* the search limit allows in a window, one of them was answered with 429.
C13_SearchLimited ==
    (/\ Cardinality(Reqs) > SearchRequests
     /\ \A r \in Reqs : /\ req[r].pc \in Finished
                        /\ req[r].path = "/api/v1/knowledge/terms/search"
                        /\ req[r].host = req[1].host)
        => \E r \in Reqs : req[r].status_code = 429

\* C14: a request a scope rejected is answered with status 429 and the
\* limit, remaining, reset time and retry_after of that scope's decision,
\* the response is built without an exception, and the handler is not run.
C14_RejectionResponse ==
    \A r \in Reqs :
        LET cs == Checks(r)
        IN  (req[r].pc \in {"raised", "rejected"} /\ Len(cs) > 0 /\ ~cs[Len(cs)].is_allowed) =>
                /\ req[r].status_code = 429
                /\ ~req[r].raised
                /\ req[r].headers = cs[Len(cs)].info
                /\ ~req[r].forwarded

\* ------------------------------------------------- degraded operation
\* C15: a limiter that counts locally because the server was unreachable,
\* at initialize included, goes back to the distributed counter once the
\* server can be reached: while the server stays up, the limiter comes to
\* hold a client again.
C15_RecoversFromDegraded ==
    (initialized /\ ~redis_client /\ server = "up") ~> (redis_client \/ server # "up")

\* a call to the server has failed and its request was counted locally
Degraded == redis_client /\ \E k \in Keys : nevals[k].local > 0

\* C16: once a call to the server has failed, an evaluation that starts
\* afterwards is decided by the local counter without a round trip to the
\* server.
C16_DegradedIsSticky ==
    [][\A t \in Tasks :
         (Degraded /\ task[t].pc = "idle" /\ task'[t].pc # "idle") => task'[t].pc = "done"]_vars

\* C17: an evaluation that waits for a server that does not answer is
\* abandoned and decided: it completes unless the server starts answering.
C17_EvaluationCompletes ==
    \A t \in Tasks :
        (task[t].pc = "execute" /\ server = "silent")
            ~> (task[t].pc = "done" \/ server # "silent")

\* ------------------------------------------------- reported numbers
Abs(x) == IF x >= 0 THEN x ELSE -x

\* the oldest timestamp (ticks) of key k in backend b, in the Redis store
\* st and the local dictionary lc
HasRecordedIn(st, lc, k, b) ==
    IF b = "redis" THEN st[k] # {}
    ELSE k \in DOMAIN lc /\ lc[k].requests # <<>>
OldestIn(st, lc, k, b) ==
    IF b = "redis"
    THEN TicksPerSecond * Min(Scores(st[k]))
    ELSE Head(lc[k].requests)

\* C18: a rejection reports as retry_after the time until the oldest
\* timestamp recorded for the key leaves the window, window - (now - oldest),
\* to within the second the clock readings are truncated to.
C18_RetryAfter ==
    [][(Returned /\ ~last'.is_allowed
          /\ HasRecordedIn(store', local_counters', last'.key, last'.backend))
         => Abs(last'.info.retry_after * TicksPerSecond
                - (Window(last'.rule)
                   - (last'.at - OldestIn(store', local_counters', last'.key, last'.backend))))
              < TicksPerSecond]_vars

\* C19: on a key with a rule of M requests in a window of more than M
\* seconds that is evaluated once a second from second 0 on by one backend,
\* the evaluations at seconds 0..M-1 are admitted with remaining M-1..0 and
\* the evaluation at second M is rejected with retry_after = window - M.
C19_Scenario ==
    \A k \in Keys :
        LET M == KeyRule(k).requests
            W == KeyRule(k).window
            total == nevals[k].redis + nevals[k].local
        IN  (/\ Decided /\ last.key = k
             /\ nevals[k].redis = 0 \/ nevals[k].local = 0
             /\ M < W /\ total <= M + 1
             /\ \A s \in 0..(total - 1) :
                   tally[k][s * TicksPerSecond].re + tally[k][s * TicksPerSecond].le = 1
             /\ last.at = (total - 1) * TicksPerSecond) =>
                /\ total <= M => (last.is_allowed /\ last.info.remaining = M - total)
                /\ total = M + 1 => (~last.is_allowed /\ last.info.retry_after = W - M)

\* the entries of key k inside the window of rule at reading t (ticks),
\* as the backend b holds them
EntriesInWindow(k, b, rule, t) ==
    IF b = "redis"
    THEN Cardinality({e \in store[k] : e[2] > IntTime(t) - rule.window})
    ELSE IF k \in DOMAIN local_counters
         THEN Cardinality(InWindow(local_counters[k].requests, rule, t))
         ELSE 0

\* C20: an admitted evaluation reports remaining = max_requests - n - 1,
\* n being the entries of the key inside the window before the evaluation
\* recorded its own, on the Redis path and on the local path.
C20_RemainingFormula ==
    [][(Returned /\ last'.is_allowed) =>
         last'.info.remaining =
             last'.rule.requests
             - EntriesInWindow(last'.key, last'.backend, last'.rule, last'.at) - 1]_vars

C20_Witness ==
    /\ Decided /\ last.is_allowed /\ last.backend = "redis"
    /\ last.n >= 1 /\ last.info.remaining = last.rule.requests - last.n - 1
    /\ nevals[last.key].local > 0

\* ------------------------------------------------- window arithmetic
\* C21: every decision reports as reset time the instant the oldest entry
\* left in the key's window leaves it, oldest + window, to within the second
\* the clock readings are truncated to.
C21_ResetTime ==
    [][(Returned /\ HasRecordedIn(store', local_counters', last'.key, last'.backend))
         => Abs(last'.info.reset_time * TicksPerSecond
                - (OldestIn(store', local_counters', last'.key, last'.backend)
                   + Window(last'.rule)))
              < TicksPerSecond]_vars

\* the entries of key k that are at most the window old at reading t
\* (ticks), the entry exactly one window old included
EntriesNotOlder(k, b, rule, t) ==
    IF b = "redis"
    THEN Cardinality({e \in store[k] : e[2] >= IntTime(t) - rule.window})
    ELSE IF k \in DOMAIN local_counters
         THEN Cardinality({i \in 1..Len(local_counters[k].requests) :
                              local_counters[k].requests[i] >= t - Window(rule)})
         ELSE 0

\* C22: the count a decision is made with includes the entry whose
\* timestamp is exactly one window old: only entries older than
\* now - window are removed before counting.
C22_BoundaryCounted ==
    [][Returned =>
         last'.n = EntriesNotOlder(last'.key, last'.backend, last'.rule, last'.at)]_vars

\* ------------------------------------------------- local counter
\* C23: whatever the order in which the tasks of the process reach the local
\* counter of a key, the counter never holds more than max_requests
\* timestamps, holds them in the order of the clock, and admits no more than
\* max_requests of the requests that arrive at one instant.
C23_LocalAtomic ==
    /\ \A k \in DOMAIN local_counters :
          LET q == local_counters[k].requests
          IN  /\ Len(q) <= local_counters[k].max_requests
              /\ \A i \in 1..(Len(q) - 1) : q[i] <= q[i + 1]
    /\ \A k \in Keys : \A t \in 0..MaxTick : tally[k][t].la <= KeyRule(k).requests

C23_Witness ==
    /\ ~redis_client
    /\ \E k \in Keys : /\ tally[k][now].le = NTasks
                       /\ tally[k][now].la = KeyRule(k).requests
                       /\ KeyRule(k).requests < NTasks

\* ------------------------------------------------- key expiry
\* C24: every evaluation by the Redis pipeline sets the key's time to live
\* to the rule's window; a key exists only while its time to live runs,
\* which nothing but an evaluation of the key renews; and an evaluation of a
\* key that has expired counts no entries.
C24_KeysExpire ==
    [][/\ (Returned /\ last'.backend = "redis")
            => /\ expire_at'[last'.key] = now + Window(last'.rule)
               /\ expire_at[last'.key] = None => last'.n = 0
       /\ \A k \in Keys :
            /\ store'[k] # {} => (expire_at'[k] # None /\ now' < expire_at'[k])
            /\ expire_at'[k] = None => store'[k] = {}
            /\ (expire_at'[k] # expire_at[k] /\ expire_at'[k] # None)
                  => (Returned /\ last'.backend = "redis" /\ last'.key = k)]_vars

C24_Witness ==
    \E k \in Keys :
        /\ nevals[k].redis >= 2 /\ nevals[k].local = 0
        /\ store[k] = {} /\ expire_at[k] = None
        /\ last.key = k /\ now >= last.at + Window(last.rule)

\* ------------------------------------------------- token bucket
Consumed == consumed'.seq # consumed.seq

\* the token count consume refills the bucket to before it decides
Refilled ==
    min(bucket.capacity * TicksPerSecond,
        bucket.tokens + (now - bucket.last_refill) * bucket.refill_rate)

\* C25: consume refills to min(capacity, tokens + (now - last_refill) *
\* refill_rate), sets last_refill to now whether it admits or rejects,
\* admits exactly when the refilled count is at least the amount asked, and
\* subtracts the amount only when it admits.
C25_Consume ==
    [][Consumed =>
         /\ bucket'.last_refill = now
         /\ consumed'.result <=> Refilled >= consumed'.tokens * TicksPerSecond
         /\ bucket'.tokens = IF consumed'.result
                             THEN Refilled - consumed'.tokens * TicksPerSecond
                             ELSE Refilled
         /\ bucket'.capacity = bucket.capacity
         /\ bucket'.refill_rate = bucket.refill_rate]_vars

C25_Witness ==
    /\ consumed.seq > 0 /\ ~consumed.result
    /\ bucket.last_refill = now /\ now > 0
    /\ bucket.tokens > 0 /\ bucket.tokens < bucket.capacity * TicksPerSecond

\* C30: with a clock that does not go back and amounts that are not
\* negative, the token count is between 0 and capacity after every consume,
\* and a consume that returns False leaves it at the refilled count.
C30_TokensInRange ==
    [][Consumed =>
         /\ 0 <= bucket'.tokens
         /\ bucket'.tokens <= bucket'.capacity * TicksPerSecond
         /\ ~consumed'.result => (bucket'.tokens = Refilled /\ bucket'.tokens >= bucket.tokens)]_vars

C30_Witness ==
    /\ consumed.seq > 0 /\ consumed.result /\ consumed.tokens = 0
    /\ bucket.tokens = bucket.capacity * TicksPerSecond
    /\ bucket.refill_rate > 0 /\ bucket.last_refill > 1

\* ------------------------------------------------- both backends
\* admissions of key k, by either backend, computed with readings in (lo, hi]
RECURSIVE SumAdmits(_, _, _)
SumAdmits(k, lo, hi) ==
    IF hi <= lo \/ hi < 0 THEN 0
    ELSE (IF hi <= MaxTick THEN tally[k][hi].ra + tally[k][hi].la ELSE 0)
         + SumAdmits(k, lo, hi - 1)

\* C26: counting the admissions of both backends together, no trailing
\* window of a key holds more than max_requests admissions, whatever the
\* failures and recoveries of the distributed backend during the window.
\* (Stated for keys whose distributed evaluations each read a second of
\* their own, so that the count is about the change of backend alone.)
C26_QuotaAcrossFailover ==
    \A k \in Keys :
        (\A u \in 0..MaxTick : tally[k][u].re <= 1)
          => \A t \in 0..MaxTick :
                SumAdmits(k, t - Window(KeyRule(k)), t) <= KeyRule(k).requests

\* distributed evaluations of key k computed with readings in (lo, hi]
RECURSIVE SumRedisEvals(_, _, _)
SumRedisEvals(k, lo, hi) ==
    IF hi <= lo \/ hi < 0 THEN 0
    ELSE (IF hi <= MaxTick THEN tally[k][hi].re ELSE 0) + SumRedisEvals(k, lo, hi - 1)

\* C27: in distributed mode the count n of a decision is the number of
\* evaluations made on the key within the trailing window, also when
\* several of them read the same clock second. (Stated for a key only
\* ever evaluated by the distributed backend, and for an evaluation whose
\* round trip ends in the second it read.)
C27_CountIsEvaluations ==
    [][(/\ Returned
        /\ last'.backend = "redis"
        /\ nevals[last'.key].local = 0
        /\ last'.at = IntTime(now) * TicksPerSecond)
         => last'.n = SumRedisEvals(last'.key, last'.at - Window(last'.rule), MaxTick)]_vars

\* ------------------------------------------------- shape of a decision
\* C28: every decision is_allowed returns, from either backend, is well
\* formed: 0 <= remaining < limit, limit is the rule's max_requests, a
\* rejection has remaining 0 and retry_after equal to the window, and an
\* admission has no retry_after.
C28_WellFormed ==
    Decided =>
        /\ 0 <= last.info.remaining
        /\ last.info.remaining < last.info.limit
        /\ last.info.limit = last.rule.requests
        /\ ~last.is_allowed => /\ last.info.remaining = 0
                               /\ last.info.retry_after = last.rule.window
        /\ last.is_allowed => last.info.retry_after = None

C28_Witness ==
    /\ Decided /\ last.backend = "local"
    /\ ~last.is_allowed /\ last.rule.requests >= 2
    /\ last.info.retry_after = last.rule.window
    /\ nevals[last.key].local > last.rule.requests

\* ------------------------------------------------- security limiter
Requested == sec'.calls # sec.calls

\* the request of this step had block_ip called for its client
BlockedNow ==
    /\ Requested
    /\ sec'.client \in DOMAIN sec'.blocked_ips
    /\ \/ sec'.client \notin DOMAIN sec.blocked_ips
       \/ sec'.blocked_ips[sec'.client] # sec.blocked_ips[sec'.client]

\* C29: an address is blocked only once it has made more than the tolerated
\* number of rate-limit violations since it was last blocked; while the block
\* lasts its requests are answered 403, and after it the address has to make
\* that many violations again before it is blocked again.
C29_BlockAfterViolations ==
    [][/\ BlockedNow => sec.since_block[sec'.client] + 1 > SuspiciousLimit
       /\ (/\ Requested
           /\ sec'.client \in DOMAIN sec.blocked_ips
           /\ now < sec.blocked_ips[sec'.client]) => sec'.status_code = 403
       /\ (Requested /\ sec'.status_code = 403)
            => (sec'.client \in DOMAIN sec.blocked_ips /\ now < sec.blocked_ips[sec'.client])]_vars

====
